---- MODULE Spec2Model ----
(***************************************************************************)
(* dbt-toolbox: the build staleness analyzer (cli/_build_analysis.py,      *)
(* data_models.py) and the column lineage resolver (column_resolver.py).   *)
(*                                                                         *)
(* Strings the code inspects character by character (selection            *)
(* expressions, unit names) are sequences of one-character strings.        *)
(* Python's None is the empty tuple, a present value x is <<x>>.           *)
(***************************************************************************)
EXTENDS Integers, Sequences, FiniteSets, TLC

None == <<>>

Some(x) == <<x>>

(***************************************************************************)
(* Bounds of the model.                                                    *)
(***************************************************************************)
\* Longest selection expression handed to parse_dbt_selection.
MaxSelLen == 4

\* Latest build timestamp (minutes) a cache entry may carry.
MaxTime == 1

\* Longest selection expression handed to analyze_build_execution.
MaxBuildSelLen == 1

\* Longest reasons list handed to the ModelExecutionAnalysis constructor.
MaxReasons == 1

\* Longest select list of the query handed to resolve_column_lineage.
MaxMainColumns == 2

\* Most calls of resolve_column_lineage in one behaviour.
MaxCalls == 3

\* Longest unit, source or table name handed to ref() and source().
MaxNameLen == 4

(***************************************************************************)
(* The names of the project.                                               *)
(***************************************************************************)
A == <<"a">>

B == <<"b">>

C == <<"c">>

ModelNames == {A, B, C}

\* Position of a unit name in the order the project declares them; a unit
\* refers only to units declared before it, so the graph has no cycle.
ModelOrder == <<A, B, C>>

MacroNames == {<<"m">>}

SourceNames == {<<"s">>}

Whitespace == {" "}

SelChars == {"a", "b", "c", "+", ",", " "}

VARIABLES
    models,                 \* dbt_parser.models: the names of the project's units
    upstream,               \* Model.upstream of each unit: [models, macros, sources]
    last_built,             \* Model.last_built of each unit: None or <<minutes>>
    last_build_failed,      \* Model.last_build_failed: None, <<TRUE>>, <<FALSE>>
    changed_macros,         \* the macros for which dbt_parser.macro_changed holds
    cache_validity_minutes, \* settings.cache_validity_minutes
    execution_timestamp,    \* constants.EXECUTION_TIMESTAMP, in minutes
    op,                     \* the operation that ran last
    args,                   \* the arguments of that call, by parameter name
    target_models,          \* the set parse_dbt_selection returned
    analysis_results,       \* the analyses the last call returned, by unit name
    column_refs,            \* the list resolve_column_lineage returned
    exception,              \* None, or <<the exception the call raised>>
    calls,                  \* the calls of resolve_column_lineage made so far
    environ,                \* os.environ: a dict of variable name and value
    toml,                   \* settings.toml: the [tool.dbt_toolbox] table
    setting                 \* None, or <<the Setting the last lookup returned>>

vars == <<models, upstream, last_built, last_build_failed, changed_macros,
          cache_validity_minutes, execution_timestamp, op, args,
          target_models, analysis_results, column_refs, exception, calls,
          environ, toml, setting>>

configuration == <<environ, toml, setting>>

project == <<models, upstream, last_built, last_build_failed, changed_macros,
             cache_validity_minutes, execution_timestamp>>

(***************************************************************************)
(* data_models.py: Model freshness.                                        *)
(***************************************************************************)
\* The comparison turned into <=.
cache_timed_out_AtTheLimit(m) ==
    IF last_built[m] = None
    THEN TRUE
    ELSE last_built[m][1] + cache_validity_minutes <= execution_timestamp

cache_timed_out(m) ==
    IF last_built[m] = None
    THEN TRUE
    ELSE last_built[m][1] + cache_validity_minutes < execution_timestamp

\* A build outcome of None read as "did not fail".
is_fresh_NoneAsSuccess(m) ==
    IF last_built[m] = None
    THEN FALSE
    ELSE IF last_build_failed[m] # None /\ last_build_failed[m][1]
         THEN FALSE
         ELSE ~cache_timed_out(m)

is_fresh(m) ==
    IF last_build_failed[m] = None \/ last_built[m] = None
    THEN FALSE
    ELSE IF last_build_failed[m][1]
         THEN FALSE
         ELSE ~cache_timed_out(m)

(***************************************************************************)
(* The dependency graph and the parser's lookups.                          *)
(***************************************************************************)
get_node_type(n) ==
    IF n \in models THEN "model"
    ELSE IF n \in MacroNames THEN "macro"
    ELSE "source"

\* The nodes a node depends on directly: the graph holds the project's
\* units, macros and sources.
DependsOnNodes(n) ==
    IF n \in models
    THEN (upstream[n].models \cap models) \cup upstream[n].macros
         \cup upstream[n].sources
    ELSE {}

RECURSIVE Reach(_, _)
Reach(frontier, seen) ==
    LET new == UNION {DependsOnNodes(x) : x \in frontier} \ seen
    IN  IF new = {} THEN seen ELSE Reach(new, seen \cup new)

get_upstream_nodes(n) == Reach({n}, {})

get_downstream_models(n) == {m \in models : n \in get_upstream_nodes(m)}

macro_changed(macro_name) == macro_name \in changed_macros

(***************************************************************************)
(* cli/_build_analysis.py: parse_dbt_selection.                            *)
(***************************************************************************)
\* Fields split at commas only.
IsSep_CommaOnly(c) == c = ","

IsSep(c) == c = "," \/ c \in Whitespace

RECURSIVE LStrip(_)
LStrip(s) ==
    IF s # <<>> /\ Head(s) \in Whitespace THEN LStrip(Tail(s)) ELSE s

RECURSIVE RStrip(_)
RStrip(s) ==
    IF s # <<>> /\ s[Len(s)] \in Whitespace
    THEN RStrip(SubSeq(s, 1, Len(s) - 1))
    ELSE s

\* str.strip()
Strip(s) == RStrip(LStrip(s))

\* re.split(r"[,\s]+", s): the fields between maximal runs of separators; a
\* run at either end leaves an empty field there.
RECURSIVE ReSplitFrom(_, _, _, _)
ReSplitFrom(s, i, cur, acc) ==
    IF i > Len(s) THEN Append(acc, cur)
    ELSE IF IsSep(s[i])
         THEN IF i > 1 /\ IsSep(s[i - 1])
              THEN ReSplitFrom(s, i + 1, cur, acc)
              ELSE ReSplitFrom(s, i + 1, <<>>, Append(acc, cur))
         ELSE ReSplitFrom(s, i + 1, Append(cur, s[i]), acc)

ReSplit(s) == ReSplitFrom(s, 1, <<>>, <<>>)

\* str.split("+"): every "+" ends a field.
RECURSIVE SplitPlusFrom(_, _, _, _)
SplitPlusFrom(s, i, cur, acc) ==
    IF i > Len(s) THEN Append(acc, cur)
    ELSE IF s[i] = "+"
         THEN SplitPlusFrom(s, i + 1, <<>>, Append(acc, cur))
         ELSE SplitPlusFrom(s, i + 1, Append(cur, s[i]), acc)

SplitPlus(s) == SplitPlusFrom(s, 1, <<>>, <<>>)

EndsWithPlus(sel) == sel # <<>> /\ sel[Len(sel)] = "+"

StartsWithPlus(sel) == sel # <<>> /\ sel[1] = "+"

ContainsPlus(sel) == \E i \in 1..Len(sel) : sel[i] = "+"

\* The node-type filter left out.
UpstreamModels_NoFilter(model_name) == get_upstream_nodes(model_name)

UpstreamModels(model_name) ==
    {node \in get_upstream_nodes(model_name) : get_node_type(node) = "model"}

\* What one field of the selection adds to target_models.
SelectDownstream(sel) ==
    LET model_name == SubSeq(sel, 1, Len(sel) - 1)
    IN  IF model_name \in models
        THEN {model_name} \cup get_downstream_models(model_name)
        ELSE {}

SelectUpstream(sel) ==
    LET model_name == SubSeq(sel, 2, Len(sel))
    IN  IF model_name \in models
        THEN {model_name} \cup UpstreamModels(model_name)
        ELSE {}

SelectBidirectional(sel) ==
    LET parts == SplitPlus(sel)
    IN  IF Len(parts) = 3 /\ parts[1] = <<>> /\ parts[3] = <<>>
        THEN LET model_name == parts[2]
             IN  IF model_name \in models
                 THEN {model_name} \cup UpstreamModels(model_name)
                      \cup get_downstream_models(model_name)
                 ELSE {}
        ELSE {}

\* The membership test of the direct selection left out.
SelectDirect_NoCheck(sel) == {sel}

SelectDirect(sel) == IF sel \in models THEN {sel} ELSE {}

ParseSel(sel) ==
    IF sel = <<>> THEN {}
    ELSE IF EndsWithPlus(sel) THEN SelectDownstream(sel)
    ELSE IF StartsWithPlus(sel) THEN SelectUpstream(sel)
    ELSE IF ContainsPlus(sel) THEN SelectBidirectional(sel)
    ELSE SelectDirect(sel)

Selections(s) == ReSplit(Strip(s))

\* An absent selection read as "nothing selected".
parse_dbt_selection_NoneIsEmpty(sel) ==
    IF sel = None \/ sel = Some(<<>>)
    THEN {}
    ELSE LET selections == Selections(sel[1])
         IN  UNION {ParseSel(selections[i]) : i \in 1..Len(selections)}

parse_dbt_selection(sel) ==
    IF sel = None \/ sel = Some(<<>>)
    THEN models
    ELSE LET selections == Selections(sel[1])
         IN  UNION {ParseSel(selections[i]) : i \in 1..Len(selections)}

(***************************************************************************)
(* cli/_build_analysis.py: the per-unit analysis.                          *)
(***************************************************************************)
ExecutionReason(code, description) ==
    [code |-> code, description |-> description]

\* The dataclass without its __post_init__.
ModelExecutionAnalysis_NoPostInit(model, needs_execution, reasons) ==
    [model |-> model, needs_execution |-> needs_execution, reasons |-> reasons]

\* The dataclass with its __post_init__: needs_execution is recomputed.
ModelExecutionAnalysis(model, needs_execution, reasons) ==
    [model |-> model, needs_execution |-> Len(reasons) > 0, reasons |-> reasons]

\* The freshness test inverted.
upstream_models_changed_ForgotNot(model) ==
    {m \in upstream[model].models : m \in models /\ is_fresh(m)}

upstream_models_changed(model) ==
    {m \in upstream[model].models : m \in models /\ ~is_fresh(m)}

upstream_macros_changed(model) ==
    {macro_name \in upstream[model].macros : macro_changed(macro_name)}

ModelStaleReasons(model) ==
    IF ~is_fresh(model)
    THEN <<ExecutionReason("MODEL_STALE", <<model, cache_validity_minutes>>)>>
    ELSE <<>>

UpstreamModelsReasons(model) ==
    LET changed_upstream_models == upstream_models_changed(model)
    IN  IF changed_upstream_models # {}
        THEN <<ExecutionReason("UPSTREAM_MODELS_CHANGED",
                               <<changed_upstream_models>>)>>
        ELSE <<>>

UpstreamMacrosReasons(model) ==
    LET changed_upstream_macros == upstream_macros_changed(model)
    IN  IF changed_upstream_macros # {}
        THEN <<ExecutionReason("UPSTREAM_MACROS_CHANGED",
                               <<changed_upstream_macros>>)>>
        ELSE <<>>

\* cli/_build_analysis.py: BuildAnalyzer.cache_expiration
cache_expiration == execution_timestamp - cache_validity_minutes

\* The analysis stopping at the first cause it finds.
analyze_model_execution_FirstCauseOnly(model) ==
    LET reasons == IF ModelStaleReasons(model) # <<>> THEN ModelStaleReasons(model)
                   ELSE IF UpstreamModelsReasons(model) # <<>>
                        THEN UpstreamModelsReasons(model)
                        ELSE UpstreamMacrosReasons(model)
    IN  ModelExecutionAnalysis(model, Len(reasons) > 0, reasons)

analyze_model_execution(model) ==
    LET reasons == ModelStaleReasons(model) \o UpstreamModelsReasons(model)
                   \o UpstreamMacrosReasons(model)
    IN  ModelExecutionAnalysis(model, Len(reasons) > 0, reasons)

analyze_build_execution(sel) ==
    LET targets == parse_dbt_selection(sel)
    IN  [model_name \in targets \cap models |-> analyze_model_execution(model_name)]

(***************************************************************************)
(* The parsed query tree (sqlglot).  A node is a record with a kind; names *)
(* of tables, CTEs and table aliases are sequences of characters, names of *)
(* columns are strings, and a missing alias or qualifier is NoAlias.       *)
(***************************************************************************)
NoAlias == <<>>

Table(name, alias) == [kind |-> "table", name |-> name, alias |-> alias]

Subquery(this, alias) == [kind |-> "subquery", this |-> this, alias |-> alias]

CTE(alias, this) == [kind |-> "cte", alias |-> alias, this |-> this]

Column(name, table) == [kind |-> "column", name |-> name, table |-> table]

Star == [kind |-> "star"]

Alias(this, alias) == [kind |-> "alias", this |-> this, alias |-> alias]

\* A function call or an operator over its operands; `this` is the first.
Func(operands) == [kind |-> "func", args |-> operands]

Literal(text) == [kind |-> "literal", this |-> text]

From(this) == [kind |-> "from", this |-> this]

Join(this) == [kind |-> "join", this |-> this]

With(ctes) == [kind |-> "with", expressions |-> ctes]

\* from is empty or holds the one FROM item; joins holds the JOIN items.
Select(with, expressions, from, joins) ==
    [kind |-> "select", with |-> with, expressions |-> expressions,
     from |-> from, joins |-> joins]

\* The child nodes of a node, in the order the parser set them: the select
\* list, FROM, the JOINs, and the WITH clause last.
Children(n) ==
    CASE n.kind = "select" ->
            n.expressions
            \o [i \in 1..Len(n.from) |-> From(n.from[i])]
            \o [i \in 1..Len(n.joins) |-> Join(n.joins[i])]
            \o (IF Len(n.with) = 0 THEN <<>> ELSE <<With(n.with)>>)
      [] n.kind \in {"from", "join", "cte", "subquery", "alias"} -> <<n.this>>
      [] n.kind = "with" -> n.expressions
      [] n.kind = "func" -> n.args
      [] OTHER -> <<>>

RECURSIVE ChildrenOfAll(_)
ChildrenOfAll(nodes) ==
    IF Len(nodes) = 0 THEN <<>>
    ELSE Children(Head(nodes)) \o ChildrenOfAll(Tail(nodes))

RECURSIVE WalkLevels(_)
WalkLevels(level) ==
    IF Len(level) = 0 THEN <<>>
    ELSE level \o WalkLevels(ChildrenOfAll(level))

\* Expression.walk(bfs=True): the node and everything below it.
Walk(n) == WalkLevels(<<n>>)

RECURSIVE OfKind(_, _)
OfKind(nodes, kind) ==
    IF Len(nodes) = 0 THEN <<>>
    ELSE (IF Head(nodes).kind = kind THEN <<Head(nodes)>> ELSE <<>>)
         \o OfKind(Tail(nodes), kind)

\* Expression.find_all(kind)
FindAll(n, kind) == OfKind(Walk(n), kind)

\* The same walk, each node with the alias of the nearest aliased subquery
\* or CTE above it: what walking up .parent from the node finds first.
ChildItems(it) ==
    LET inner == IF it.node.kind \in {"subquery", "cte"} /\ it.node.alias # NoAlias
                 THEN it.node.alias
                 ELSE it.ctx
        kids == Children(it.node)
    IN  [i \in 1..Len(kids) |-> [node |-> kids[i], ctx |-> inner]]

RECURSIVE ChildItemsOfAll(_)
ChildItemsOfAll(items) ==
    IF Len(items) = 0 THEN <<>>
    ELSE ChildItems(Head(items)) \o ChildItemsOfAll(Tail(items))

RECURSIVE WalkItemLevels(_)
WalkItemLevels(level) ==
    IF Len(level) = 0 THEN <<>>
    ELSE level \o WalkItemLevels(ChildItemsOfAll(level))

RECURSIVE SubqueryItems(_)
SubqueryItems(items) ==
    IF Len(items) = 0 THEN <<>>
    ELSE (IF Head(items).node.kind = "subquery" THEN <<Head(items)>> ELSE <<>>)
         \o SubqueryItems(Tail(items))

\* Expression.name, Expression.alias_or_name
NodeName(x) ==
    CASE x.kind = "column" -> x.name
      [] x.kind = "literal" -> x.this
      [] x.kind = "star" -> "*"
      [] x.kind = "func" ->
            (IF Len(x.args) = 0 THEN ""
             ELSE IF x.args[1].kind = "literal" THEN x.args[1].this
             ELSE IF x.args[1].kind = "star" THEN "*"
             ELSE "")
      [] OTHER -> ""

alias_or_name(x) == IF x.kind = "alias" THEN x.alias ELSE NodeName(x)

(***************************************************************************)
(* Python dicts, in insertion order: sequences of <<key, value>>.          *)
(***************************************************************************)
DictHas(d, k) == \E i \in 1..Len(d) : d[i][1] = k

DictGet(d, k) == d[CHOOSE i \in 1..Len(d) : d[i][1] = k][2]

DictSet(d, k, v) ==
    IF DictHas(d, k)
    THEN [i \in 1..Len(d) |-> IF d[i][1] = k THEN <<k, v>> ELSE d[i]]
    ELSE Append(d, <<k, v>>)

DictKeys(d) == {d[i][1] : i \in 1..Len(d)}

(***************************************************************************)
(* column_resolver.py                                                      *)
(***************************************************************************)
TABLE_REF_SEP == <<"_", "_", "_">>

\* dbt_parser/_jinja_handler.py: the names ref() and source() put in the SQL.
ref(x) == TABLE_REF_SEP \o <<"r", "e", "f">> \o TABLE_REF_SEP \o x \o TABLE_REF_SEP

source(x, y) ==
    TABLE_REF_SEP \o <<"s", "o", "u", "r", "c", "e">> \o TABLE_REF_SEP
    \o x \o <<"_", "_">> \o y \o TABLE_REF_SEP

StartsWith(s, prefix) ==
    Len(s) >= Len(prefix) /\ SubSeq(s, 1, Len(prefix)) = prefix

\* str.strip(chars): characters of chars removed from both ends.
RECURSIVE StripChars(_, _)
StripChars(s, chars) ==
    IF Len(s) > 0 /\ s[1] \in chars THEN StripChars(Tail(s), chars)
    ELSE IF Len(s) > 0 /\ s[Len(s)] \in chars
         THEN StripChars(SubSeq(s, 1, Len(s) - 1), chars)
         ELSE s

\* str.split(sep)
RECURSIVE SplitOnFrom(_, _, _, _, _)
SplitOnFrom(s, sep, i, cur, acc) ==
    IF i > Len(s) THEN Append(acc, cur)
    ELSE IF i + Len(sep) - 1 <= Len(s) /\ SubSeq(s, i, i + Len(sep) - 1) = sep
         THEN SplitOnFrom(s, sep, i + Len(sep), <<>>, Append(acc, cur))
         ELSE SplitOnFrom(s, sep, i + 1, Append(cur, s[i]), acc)

SplitOn(s, sep) == SplitOnFrom(s, sep, 1, <<>>, <<>>)

Chars(s) == {s[i] : i \in 1..Len(s)}

\* The table name an alias is bound to.
CleanName(table_name) ==
    IF StartsWith(table_name, TABLE_REF_SEP)
    THEN LET parts == SplitOn(StripChars(table_name, Chars(TABLE_REF_SEP)),
                              TABLE_REF_SEP)
         IN  parts[Len(parts)]
    ELSE table_name

BindTable(alias_to_table, table) ==
    DictSet(alias_to_table,
            IF table.alias # NoAlias THEN table.alias ELSE table.name,
            CleanName(table.name))

RECURSIVE BindTables(_, _)
BindTables(alias_to_table, tables) ==
    IF Len(tables) = 0 THEN alias_to_table
    ELSE BindTables(BindTable(alias_to_table, Head(tables)), Tail(tables))

RECURSIVE BindSubqueries(_, _)
BindSubqueries(alias_to_table, subqueries) ==
    IF Len(subqueries) = 0 THEN alias_to_table
    ELSE BindSubqueries(
             IF Head(subqueries).alias # NoAlias
             THEN DictSet(alias_to_table, Head(subqueries).alias,
                          Head(subqueries).alias)
             ELSE alias_to_table,
             Tail(subqueries))

RECURSIVE FindAllUnder(_, _)
FindAllUnder(nodes, kind) ==
    IF Len(nodes) = 0 THEN <<>>
    ELSE FindAll(Head(nodes), kind) \o FindAllUnder(Tail(nodes), kind)

\* glot_code.find(From): the first FROM of the walk, if any.
FromClause(glot_code) ==
    LET found == FindAll(glot_code, "from")
    IN  IF Len(found) = 0 THEN <<>> ELSE <<found[1]>>

\* `joins` is the iterator find_all returns: the loop over the JOIN tables
\* uses it up, and the later loop that looks for subqueries in the JOINs
\* gets nothing from it.
JoinSubqueries(joins) == <<>>

build_alias_mapping(glot_code) ==
    LET from_clause == FromClause(glot_code)
        joins == FindAll(glot_code, "join")
        from_tables == FindAllUnder(from_clause, "table")
        join_tables == FindAllUnder(joins, "table")
        from_subqueries == FindAllUnder(from_clause, "subquery")
                           \o JoinSubqueries(joins)
    IN  BindSubqueries(BindTables(BindTables(<<>>, from_tables), join_tables),
                       from_subqueries)

ResolveColumn(col_ref, alias_to_table) ==
    IF col_ref.table # NoAlias
    THEN IF DictHas(alias_to_table, col_ref.table)
         THEN Some(DictGet(alias_to_table, col_ref.table))
         ELSE None
    ELSE IF Len(alias_to_table) = 1
         THEN Some(alias_to_table[1][2])
         ELSE None

RECURSIVE ResolveColumns(_, _, _)
ResolveColumns(result, column_nodes, alias_to_table) ==
    IF Len(column_nodes) = 0 THEN result
    ELSE ResolveColumns(
             DictSet(result, Head(column_nodes).name,
                     ResolveColumn(Head(column_nodes), alias_to_table)),
             Tail(column_nodes), alias_to_table)

extract_all_column_references(select_expr, alias_to_table, cte_names) ==
    LET column_nodes == IF Len(FindAll(select_expr, "subquery")) > 0
                        THEN <<>>
                        ELSE FindAll(select_expr, "column")
    IN  ResolveColumns(<<>>, column_nodes, alias_to_table)

\* A SELECT with the bodies of its CTEs, each with the alias it is known by.
add_select_and_ctes(select_stmt, alias) ==
    <<[stmt |-> select_stmt, alias |-> alias]>>
    \o [i \in 1..Len(select_stmt.with) |->
            [stmt |-> select_stmt.with[i].this, alias |-> select_stmt.with[i].alias]]

RECURSIVE AddSubquerySelects(_)
AddSubquerySelects(items) ==
    IF Len(items) = 0 THEN <<>>
    ELSE add_select_and_ctes(
             Head(items).node.this,
             IF Head(items).node.alias # NoAlias
             THEN Head(items).node.alias
             ELSE Head(items).ctx)
         \o AddSubquerySelects(Tail(items))

\* Every SELECT of the query with the alias the column mapping files it
\* under (NoAlias: none found).
collect_all_select_statements(glot_code) ==
    add_select_and_ctes(glot_code, NoAlias)
    \o AddSubquerySelects(
           SubqueryItems(WalkItemLevels(<<[node |-> glot_code, ctx |-> NoAlias]>>)))

CteAliases(select_stmt) ==
    {select_stmt.with[i].alias : i \in 1..Len(select_stmt.with)}

collect_all_cte_names(glot_code) ==
    LET subqueries == FindAll(glot_code, "subquery")
    IN  CteAliases(glot_code)
        \cup UNION {CteAliases(subqueries[i].this) : i \in 1..Len(subqueries)}

NonStar(expressions) ==
    {i \in 1..Len(expressions) : expressions[i].kind # "star"}

\* cte_name -> the names its body outputs; the last CTE of a name counts.
build_cte_available_columns(glot_code) ==
    [cte_name \in CteAliases(glot_code) |->
        LET last == CHOOSE i \in 1..Len(glot_code.with) :
                        /\ glot_code.with[i].alias = cte_name
                        /\ \A j \in (i + 1)..Len(glot_code.with) :
                               glot_code.with[j].alias # cte_name
            body == glot_code.with[last].this
        IN  {alias_or_name(body.expressions[i]) : i \in NonStar(body.expressions)}]

\* select_expr.this.name raises AttributeError when select_expr.this is a
\* plain string, as it is for a literal.
ThisNameRaises(select_expr) == select_expr.kind = "literal"

ThisName(select_expr) ==
    CASE select_expr.kind = "alias" -> NodeName(select_expr.this)
      [] select_expr.kind = "func" ->
            (IF Len(select_expr.args) = 0 THEN ""
             ELSE NodeName(select_expr.args[1]))
      [] select_expr.kind = "column" -> select_expr.name
      [] OTHER -> ""

TracedSource(col_refs) == IF Len(col_refs) = 1 THEN col_refs[1][2] ELSE None

RECURSIVE MapSelectColumns(_, _, _, _)
MapSelectColumns(mapping, expressions, alias_to_table, cte_names) ==
    IF Len(expressions) = 0 THEN mapping
    ELSE IF Head(expressions).kind = "star"
         THEN MapSelectColumns(mapping, Tail(expressions), alias_to_table, cte_names)
         ELSE MapSelectColumns(
                  DictSet(mapping, ThisName(Head(expressions)),
                          TracedSource(extract_all_column_references(
                              Head(expressions), alias_to_table, cte_names))),
                  Tail(expressions), alias_to_table, cte_names)

RECURSIVE MapSelects(_, _, _, _)
MapSelects(column_mapping, all_selects, glot_code, cte_names) ==
    IF Len(all_selects) = 0 THEN column_mapping
    ELSE IF Head(all_selects).stmt = glot_code \/ Head(all_selects).alias = NoAlias
         THEN MapSelects(column_mapping, Tail(all_selects), glot_code, cte_names)
         ELSE MapSelects(
                  DictSet(column_mapping, Head(all_selects).alias,
                          MapSelectColumns(<<>>, Head(all_selects).stmt.expressions,
                                           build_alias_mapping(Head(all_selects).stmt),
                                           cte_names)),
                  Tail(all_selects), glot_code, cte_names)

build_subquery_column_mapping(glot_code, cte_names) ==
    MapSelects(<<>>, collect_all_select_statements(glot_code), glot_code, cte_names)

\* Whether building the column mapping raises.
MappingRaises(glot_code) ==
    LET all_selects == collect_all_select_statements(glot_code)
    IN  \E i \in 1..Len(all_selects) :
            /\ all_selects[i].stmt # glot_code
            /\ all_selects[i].alias # NoAlias
            /\ \E j \in 1..Len(all_selects[i].stmt.expressions) :
                   ThisNameRaises(all_selects[i].stmt.expressions[j])

ColumnReference(column_name, table_reference, reference_type, resolved) ==
    [column_name |-> column_name, table_reference |-> table_reference,
     reference_type |-> reference_type, resolved |-> resolved]

\* Python's truth of a table name that may be None.
Truthy(name) == name # None /\ name[1] # <<>>

\* The reference the main pass builds for one column of the select list.
MainReference(col_name, source_table, cte_names, cte_available_columns, subquery_column_sources) ==
    IF source_table = None
    THEN ColumnReference(col_name, None, "INTERNAL", Some(FALSE))
    ELSE IF source_table[1] \in cte_names
    THEN IF /\ source_table[1] \in DOMAIN cte_available_columns
            /\ col_name \in cte_available_columns[source_table[1]]
         THEN IF /\ DictHas(subquery_column_sources, source_table[1])
                 /\ DictHas(DictGet(subquery_column_sources, source_table[1]), col_name)
              THEN LET ultimate_source ==
                           DictGet(DictGet(subquery_column_sources, source_table[1]),
                                   col_name)
                   IN  IF Truthy(ultimate_source)
                       THEN ColumnReference(col_name, ultimate_source, "EXTERNAL", None)
                       ELSE ColumnReference(col_name, source_table, "CTE", Some(TRUE))
              ELSE ColumnReference(col_name, source_table, "CTE", Some(TRUE))
         ELSE ColumnReference(col_name, source_table, "CTE", Some(FALSE))
    ELSE IF DictHas(subquery_column_sources, source_table[1])
    THEN LET sources == DictGet(subquery_column_sources, source_table[1])
             ultimate_source == IF DictHas(sources, col_name)
                                THEN DictGet(sources, col_name)
                                ELSE None
         IN  IF Truthy(ultimate_source)
             THEN ColumnReference(col_name, ultimate_source, "EXTERNAL", None)
             ELSE ColumnReference(col_name, source_table, "SUBQUERY", Some(TRUE))
    ELSE ColumnReference(col_name, source_table, "EXTERNAL", None)

NestedReference_NoSourceTest(col_name, source_table, cte_names) ==
    <<ColumnReference(col_name, source_table, "EXTERNAL", None)>>

\* The references the secondary pass appends for one column of a nested
\* select list: one, or none.
NestedReference(col_name, source_table, cte_names) ==
    IF Truthy(source_table) /\ source_table[1] \notin cte_names
    THEN <<ColumnReference(col_name, source_table, "EXTERNAL", None)>>
    ELSE <<>>

\* The loops thread acc = [result, seen_columns].
RECURSIVE MainColumns(_, _, _, _, _)
MainColumns(acc, col_refs, cte_names, cte_available_columns, subquery_column_sources) ==
    IF Len(col_refs) = 0 THEN acc
    ELSE LET col_name == Head(col_refs)[1]
             source_table == Head(col_refs)[2]
             next == IF col_name \in acc.seen_columns
                     THEN acc
                     ELSE [result |-> Append(acc.result,
                                             MainReference(col_name, source_table,
                                                           cte_names,
                                                           cte_available_columns,
                                                           subquery_column_sources)),
                           seen_columns |-> acc.seen_columns \cup {col_name}]
         IN  MainColumns(next, Tail(col_refs), cte_names, cte_available_columns,
                         subquery_column_sources)

RECURSIVE MainPass(_, _, _, _, _, _)
MainPass(acc, expressions, alias_to_table, cte_names, cte_available_columns, subquery_column_sources) ==
    IF Len(expressions) = 0 THEN acc
    ELSE MainPass(
             IF Head(expressions).kind = "star"
             THEN acc
             ELSE MainColumns(acc,
                              extract_all_column_references(Head(expressions),
                                                            alias_to_table, cte_names),
                              cte_names, cte_available_columns,
                              subquery_column_sources),
             Tail(expressions), alias_to_table, cte_names, cte_available_columns,
             subquery_column_sources)

RECURSIVE NestedColumns(_, _, _)
NestedColumns(acc, col_refs, cte_names) ==
    IF Len(col_refs) = 0 THEN acc
    ELSE LET col_name == Head(col_refs)[1]
             source_table == Head(col_refs)[2]
             next == IF col_name \in acc.seen_columns
                     THEN acc
                     ELSE [result |-> acc.result
                                      \o NestedReference(col_name, source_table,
                                                         cte_names),
                           seen_columns |-> acc.seen_columns \cup {col_name}]
         IN  NestedColumns(next, Tail(col_refs), cte_names)

RECURSIVE NestedExpressions(_, _, _, _)
NestedExpressions(acc, expressions, alias_to_table, cte_names) ==
    IF Len(expressions) = 0 THEN acc
    ELSE NestedExpressions(
             IF Head(expressions).kind = "star"
             THEN acc
             ELSE NestedColumns(acc,
                                extract_all_column_references(Head(expressions),
                                                              alias_to_table, cte_names),
                                cte_names),
             Tail(expressions), alias_to_table, cte_names)

has_cte_references(alias_to_table, cte_names) ==
    \E alias \in DictKeys(alias_to_table) : alias \in cte_names

RECURSIVE NestedPass(_, _, _, _)
NestedPass(acc, all_selects, glot_code, cte_names) ==
    IF Len(all_selects) = 0 THEN acc
    ELSE LET select_stmt == Head(all_selects).stmt
             alias_to_table == build_alias_mapping(select_stmt)
         IN  NestedPass(
                 IF select_stmt = glot_code
                    \/ has_cte_references(alias_to_table, cte_names)
                 THEN acc
                 ELSE NestedExpressions(acc, select_stmt.expressions,
                                        alias_to_table, cte_names),
                 Tail(all_selects), glot_code, cte_names)

FreshLocals_KeptBetweenCalls ==
    [result |-> <<>>,
     seen_columns |-> {column_refs[i].column_name : i \in 1..Len(column_refs)}]

\* result = [] and seen_columns = set(), made anew by every call.
FreshLocals == [result |-> <<>>, seen_columns |-> {}]

resolve_column_lineage_NoGuard(glot_code) ==
    [raised |-> IF glot_code = None \/ glot_code[1].kind # "select"
                THEN Some("AttributeError")
                ELSE None,
     value |-> <<>>]

\* The value returned, or the exception raised.
resolve_column_lineage(glot_code) ==
    IF glot_code = None \/ glot_code[1].kind # "select"
    THEN [raised |-> None, value |-> <<>>]
    ELSE IF MappingRaises(glot_code[1])
    THEN [raised |-> Some("AttributeError"), value |-> <<>>]
    ELSE LET tree == glot_code[1]
             cte_names == collect_all_cte_names(tree)
             subquery_column_sources == build_subquery_column_mapping(tree, cte_names)
             cte_available_columns == build_cte_available_columns(tree)
             main == MainPass(FreshLocals,
                              tree.expressions, build_alias_mapping(tree), cte_names,
                              cte_available_columns, subquery_column_sources)
             all == NestedPass(main, collect_all_select_statements(tree), tree,
                               cte_names)
         IN  [raised |-> None, value |-> all.result]

(***************************************************************************)
(* settings.py: the lookup of a setting.  A value is its Python type with  *)
(* the text str() gives for it, as a sequence of characters.               *)
(***************************************************************************)
PyStr(text) == [type |-> "str", text |-> text]

PyBool(b) ==
    [type |-> "bool",
     text |-> IF b THEN <<"T", "r", "u", "e">> ELSE <<"F", "a", "l", "s", "e">>]

PyInt(digits) == [type |-> "int", text |-> digits]

PyNone == [type |-> "none", text |-> <<"N", "o", "n", "e">>]

\* Python's truth of a value.
IsTrue(value) ==
    CASE value.type = "bool" -> value.text = PyBool(TRUE).text
      [] value.type = "int" -> value.text # <<"0">>
      [] value.type = "str" -> value.text # <<>>
      [] OTHER -> FALSE

LowerChar(c) ==
    CASE c = "T" -> "t" [] c = "R" -> "r" [] c = "U" -> "u" [] c = "E" -> "e"
      [] c = "F" -> "f" [] c = "A" -> "a" [] c = "L" -> "l" [] c = "S" -> "s"
      [] c = "N" -> "n" [] c = "O" -> "o"
      [] OTHER -> c

\* str.lower()
Lower(text) == [i \in 1..Len(text) |-> LowerChar(text[i])]

Setting(value, origin, location) ==
    [value |-> value, source |-> origin, location |-> location]

\* The settings whose name starts with "dbt".
DbtNames == {"dbt_project_dir", "dbt_profiles_dir"}

\* NAME.upper() and f"DBT_TOOLBOX_{name}".upper(), as prefix and name.
EnvVarName(prefix, name) == <<prefix, name>>

EnvGet(name) == IF DictHas(environ, name) THEN DictGet(environ, name) ELSE PyNone

get_env_var(name) ==
    IF name \in DbtNames /\ IsTrue(EnvGet(EnvVarName("", name)))
    THEN EnvGet(EnvVarName("", name))
    ELSE EnvGet(EnvVarName("DBT_TOOLBOX_", name))

TomlGet(name) == IF DictHas(toml, name) THEN DictGet(toml, name) ELSE PyNone

get_setting(name, default) ==
    LET env_setting == get_env_var(name)
        toml_setting == TomlGet(name)
    IN  IF IsTrue(env_setting)
        THEN Setting(env_setting, "environment variable",
                     Some(EnvVarName(IF name \in DbtNames THEN "" ELSE "DBT_TOOLBOX_",
                                     name)))
        ELSE IF IsTrue(toml_setting)
        THEN Setting(toml_setting, "TOML file", Some("pyproject.toml"))
        ELSE Setting(default, "default", None)

get_bool_setting(name, default) ==
    LET found == get_setting(name, default)
        bool_value == Lower(found.value.text) = <<"t", "r", "u", "e">>
    IN  Setting(PyBool(bool_value), found.source, found.location)

(***************************************************************************)
(* The states a loaded project can be in.                                  *)
(***************************************************************************)
Index(n) == CHOOSE i \in 1..Len(ModelOrder) : ModelOrder[i] = n

Earlier(n) == {ModelOrder[i] : i \in 1..(Index(n) - 1)}

\* A unit that selects from no other unit reads the source; a unit among
\* macro_users may call the macro.
DependsOn(n, macro_users) ==
    {[models |-> ms, macros |-> mc,
      sources |-> IF ms = {} THEN SourceNames ELSE {}] :
        ms \in SUBSET Earlier(n),
        mc \in IF n \in macro_users THEN SUBSET MacroNames ELSE {{}}}

\* A project is the whole set of names or lacks the first one, which the
\* other units may still refer to (a seed, or a unit that was removed).
InitGraph(macro_users) ==
    /\ models \in {ModelNames, ModelNames \ {A}}
    /\ upstream \in {f \in [models -> UNION {DependsOn(n, macro_users) : n \in models}] :
                        \A n \in models : f[n] \in DependsOn(n, macro_users)}

Times == 0..MaxTime

InitNoCache ==
    /\ last_built = [n \in models |-> None]
    /\ last_build_failed = [n \in models |-> None]
    /\ changed_macros = {}
    /\ cache_validity_minutes = 1
    /\ execution_timestamp = MaxTime + 1

InitCache ==
    /\ last_built \in [models -> {None} \cup {Some(t) : t \in Times}]
    /\ last_build_failed \in [models -> {None, Some(TRUE), Some(FALSE)}]
    /\ changed_macros \in SUBSET MacroNames
    /\ cache_validity_minutes = 1
    /\ execution_timestamp = MaxTime + 1

InitCall ==
    /\ op = "init"
    /\ args = <<>>
    /\ target_models = {}
    /\ analysis_results = <<>>
    /\ column_refs = <<>>
    /\ exception = None
    /\ calls = <<>>
    /\ environ = <<>>
    /\ toml = <<>>
    /\ setting = None

(***************************************************************************)
(* The operations.                                                         *)
(***************************************************************************)
Strings(n) == UNION {[1..k -> SelChars] : k \in 0..n}

SelectionInputs == {None} \cup {Some(s) : s \in Strings(MaxSelLen)}

ParseDbtSelection(sel) ==
    /\ op = "init"
    /\ op' = "parse_dbt_selection"
    /\ args' = [selection |-> sel]
    /\ target_models' = parse_dbt_selection(sel)
    /\ analysis_results' = <<>>
    /\ UNCHANGED <<project, configuration, column_refs, exception, calls>>

AnalyzeModelExecution(model) ==
    /\ op = "init"
    /\ op' = "analyze_model_execution"
    /\ args' = [model |-> model]
    /\ target_models' = {}
    /\ analysis_results' = (model :> analyze_model_execution(model))
    /\ UNCHANGED <<project, configuration, column_refs, exception, calls>>

\* ModelExecutionAnalysis(model=..., needs_execution=..., reasons=...) built
\* directly, with whatever the caller passes.
ConstructAnalysis(model, needs_execution, reasons) ==
    /\ op = "init"
    /\ op' = "ModelExecutionAnalysis"
    /\ args' = [model |-> model, needs_execution |-> needs_execution,
                reasons |-> reasons]
    /\ target_models' = {}
    /\ analysis_results' =
           (model :> ModelExecutionAnalysis(model, needs_execution, reasons))
    /\ UNCHANGED <<project, configuration, column_refs, exception, calls>>

AnalyzeBuildExecution(sel) ==
    /\ op = "init"
    /\ op' = "analyze_build_execution"
    /\ args' = [selection |-> sel]
    /\ target_models' = parse_dbt_selection(sel)
    /\ analysis_results' = analyze_build_execution(sel)
    /\ UNCHANGED <<project, configuration, column_refs, exception, calls>>

(***************************************************************************)
(* Specifications.                                                         *)
(***************************************************************************)
InitSel == InitGraph({B, C}) /\ InitNoCache /\ InitCall

\* One call per behaviour: the guard comes first, so that a state after the
\* call is left without enumerating the inputs.
NextSel ==
    /\ op = "init"
    /\ \E sel \in SelectionInputs : ParseDbtSelection(sel)

SpecSel == InitSel /\ [][NextSel]_vars

BuildSelections == {None} \cup {Some(s) : s \in Strings(MaxBuildSelLen)}

InitBuild == InitGraph({C}) /\ InitCache /\ InitCall

ReasonInputs ==
    UNION {[1..k -> {ExecutionReason("MODEL_STALE", <<>>)}] : k \in 0..MaxReasons}

NextBuild ==
    \/ /\ op = "init"
       /\ \E model \in models : AnalyzeModelExecution(model)
    \/ /\ op = "init"
       /\ \E model \in models, needs_execution \in BOOLEAN, reasons \in ReasonInputs :
              ConstructAnalysis(model, needs_execution, reasons)
    \/ /\ op = "init"
       /\ \E sel \in BuildSelections : AnalyzeBuildExecution(sel)

SpecBuild == InitBuild /\ [][NextBuild]_vars

\* The queries resolve_column_lineage is called with: a select list over a
\* table, over a CTE of the WITH clause, or over a derived table, with or
\* without a JOIN; and the two inputs it answers with an empty list.
TableNames == {<<"t">>, <<"u">>}

CteName == <<"x">>

SubqueryAlias == <<"s">>

Lists(elements, n) == UNION {[1..k -> elements] : k \in 1..n}

NestedSelectLists ==
    {<<Star>>,
     <<Column("a", NoAlias)>>,
     <<Column("a", NoAlias), Column("b", NoAlias)>>,
     <<Alias(Column("a", NoAlias), "b")>>,
     <<Alias(Func(<<Column("a", NoAlias), Column("b", NoAlias)>>), "b")>>,
     <<Literal("1")>>}

NestedSelects ==
    {Select(<<>>, expressions, <<Table(<<"t">>, NoAlias)>>, joins) :
        expressions \in NestedSelectLists,
        joins \in {<<>>, <<Table(<<"u">>, NoAlias)>>}}

MainExpressions ==
    {Star, Column("a", NoAlias), Column("b", NoAlias), Column("a", <<"t">>),
     Column("a", CteName), Column("b", SubqueryAlias),
     Func(<<Column("a", NoAlias), Column("b", NoAlias)>>)}

MainLists == Lists(MainExpressions, MaxMainColumns)

MainJoins == {<<>>, <<Table(<<"u">>, NoAlias)>>}

PlainQueries ==
    {Select(<<>>, expressions, <<Table(<<"t">>, NoAlias)>>, joins) :
        expressions \in MainLists, joins \in MainJoins}

CteQueries ==
    {Select(<<CTE(CteName, body)>>, expressions, <<Table(from, NoAlias)>>, joins) :
        body \in NestedSelects, expressions \in MainLists,
        from \in {<<"t">>, CteName}, joins \in MainJoins}

SubqueryQueries ==
    {Select(<<>>, expressions, <<Subquery(body, SubqueryAlias)>>, joins) :
        body \in NestedSelects, expressions \in MainLists, joins \in MainJoins}
    \cup
    {Select(<<>>, expressions, <<Table(<<"t">>, NoAlias)>>,
            <<Subquery(body, SubqueryAlias)>>) :
        body \in NestedSelects, expressions \in MainLists}

LineageInputs ==
    {None, Some(Table(<<"t">>, NoAlias))}
    \cup {Some(q) : q \in PlainQueries \cup CteQueries \cup SubqueryQueries}

ResolveColumnLineage(glot_code) ==
    /\ op = "init"
    /\ op' = "resolve_column_lineage"
    /\ args' = [glot_code |-> glot_code]
    /\ LET outcome == resolve_column_lineage(glot_code)
       IN  /\ column_refs' = outcome.value
           /\ exception' = outcome.raised
    /\ UNCHANGED <<project, configuration, target_models, analysis_results, calls>>

InitLineage ==
    /\ models = {}
    /\ upstream = <<>>
    /\ InitNoCache
    /\ InitCall

NextLineage ==
    /\ op = "init"
    /\ \E glot_code \in LineageInputs : ResolveColumnLineage(glot_code)

SpecLineage == InitLineage /\ [][NextLineage]_vars

\* Queries whose main scope names its tables by aliases: `t AS e` in FROM,
\* none, one or two aliased JOINs, select items qualified by these aliases,
\* and possibly a CTE whose body uses the alias e for a table of its own.
JoinExpressions ==
    {Star, Column("a", <<"e">>), Column("a", <<"f">>), Column("b", <<"g">>),
     Column("*", <<"e">>),
     Func(<<Column("a", <<"e">>), Column("a", <<"f">>)>>)}

JoinLists ==
    {<<>>,
     <<Table(<<"u">>, <<"f">>)>>,
     <<Table(<<"u">>, <<"f">>), Table(<<"v">>, <<"g">>)>>}

JoinCtes ==
    {<<>>,
     <<CTE(CteName, Select(<<>>, <<Column("b", NoAlias)>>,
                           <<Table(<<"u">>, NoAlias)>>, <<>>))>>,
     <<CTE(CteName, Select(<<>>, <<Column("b", <<"e">>)>>,
                           <<Table(<<"u">>, NoAlias)>>,
                           <<Table(<<"v">>, <<"e">>)>>))>>}

JoinQueries ==
    {Select(with, expressions, <<Table(<<"t">>, <<"e">>)>>, joins) :
        with \in JoinCtes, expressions \in Lists(JoinExpressions, MaxMainColumns),
        joins \in JoinLists}

NextJoins ==
    /\ op = "init"
    /\ \E glot_code \in {Some(q) : q \in JoinQueries} : ResolveColumnLineage(glot_code)

SpecJoins == InitLineage /\ [][NextJoins]_vars

\* resolve_column_lineage called again and again, on the same tree or on
\* another one, each call recorded with the tree it was given.
RepeatInputs ==
    {None,
     Some(Select(<<>>, <<Column("a", NoAlias)>>, <<Table(<<"t">>, NoAlias)>>, <<>>)),
     Some(Select(<<>>, <<Column("a", <<"t">>), Column("b", NoAlias)>>,
                 <<Table(<<"t">>, NoAlias)>>, <<Table(<<"u">>, NoAlias)>>)),
     Some(Select(<<CTE(CteName, Select(<<>>, <<Column("a", NoAlias)>>,
                                       <<Table(<<"t">>, NoAlias)>>, <<>>))>>,
                 <<Column("a", NoAlias), Column("b", NoAlias)>>,
                 <<Table(CteName, NoAlias)>>, <<>>)),
     Some(Select(<<>>, <<Column("b", SubqueryAlias)>>,
                 <<Subquery(Select(<<>>, <<Column("b", NoAlias)>>,
                                   <<Table(<<"u">>, NoAlias)>>, <<>>),
                            SubqueryAlias)>>, <<>>))}

ResolveColumnLineageAgain(glot_code) ==
    /\ Len(calls) < MaxCalls
    /\ op' = "resolve_column_lineage"
    /\ args' = [glot_code |-> glot_code]
    /\ LET outcome == resolve_column_lineage(glot_code)
       IN  /\ column_refs' = outcome.value
           /\ exception' = outcome.raised
           /\ calls' = Append(calls, [glot_code |-> glot_code,
                                      value |-> outcome.value,
                                      raised |-> outcome.raised])
    /\ UNCHANGED <<project, configuration, target_models, analysis_results>>

NextRepeat == \E glot_code \in RepeatInputs : ResolveColumnLineageAgain(glot_code)

SpecRepeat == InitLineage /\ [][NextRepeat]_vars

\* SELECT a FROM <table>, for a table named by ref(), by source(), or by a
\* raw name, over names made of a letter and the underscore.
NameChars == {"a", "_"}

Names == UNION {[1..k -> NameChars] : k \in 1..MaxNameLen}

SelectFrom(table_name) ==
    Some(Select(<<>>, <<Column("a", NoAlias)>>, <<Table(table_name, NoAlias)>>, <<>>))

ResolveNamed(kind, table_name, canonical) ==
    /\ op = "init"
    /\ op' = "resolve_column_lineage"
    /\ args' = [glot_code |-> SelectFrom(table_name), kind |-> kind,
                canonical |-> canonical]
    /\ LET outcome == resolve_column_lineage(SelectFrom(table_name))
       IN  /\ column_refs' = outcome.value
           /\ exception' = outcome.raised
    /\ UNCHANGED <<project, configuration, target_models, analysis_results, calls>>

ResolveRef(x) == ResolveNamed("ref", ref(x), x)

ResolveSource(x, y) == ResolveNamed("source", source(x, y), x \o <<"_", "_">> \o y)

ResolveRaw(name) == ResolveNamed("raw", name, name)

NextEncoding ==
    \/ /\ op = "init"
       /\ \E x \in Names : ResolveRef(x)
    \/ /\ op = "init"
       /\ \E x \in Names, y \in Names : ResolveSource(x, y)
    \/ /\ op = "init"
       /\ \E name \in Names : ~StartsWith(name, TABLE_REF_SEP) /\ ResolveRaw(name)

SpecEncoding == InitLineage /\ [][NextEncoding]_vars

\* Queries with two CTEs, x and then y: the body of x reads the table t, with
\* or without a JOIN, the body of y reads x or a table, and the main scope
\* reads y or the table t.
SecondCteName == <<"y">>

FirstBodies ==
    {Select(<<>>, expressions, <<Table(<<"t">>, NoAlias)>>, joins) :
        expressions \in {<<Column("a", NoAlias)>>,
                         <<Column("a", NoAlias), Column("b", NoAlias)>>,
                         <<Column("b", NoAlias)>>},
        joins \in MainJoins}

SecondBodies ==
    {Select(<<>>, expressions, <<Table(from, NoAlias)>>, <<>>) :
        expressions \in {<<Star>>, <<Column("a", NoAlias)>>, <<Column("b", NoAlias)>>,
                         <<Column("a", NoAlias), Column("b", NoAlias)>>},
        from \in {CteName} \cup TableNames}

ChainExpressions ==
    {Star, Column("a", NoAlias), Column("b", NoAlias), Column("a", SecondCteName)}

ChainQueries ==
    {Select(<<CTE(CteName, first), CTE(SecondCteName, second)>>, expressions,
            <<Table(from, NoAlias)>>, <<>>) :
        first \in FirstBodies, second \in SecondBodies,
        expressions \in Lists(ChainExpressions, MaxMainColumns),
        from \in {SecondCteName, <<"t">>}}

NextChain ==
    /\ op = "init"
    /\ \E glot_code \in {Some(q) : q \in ChainQueries} : ResolveColumnLineage(glot_code)

SpecChain == InitLineage /\ [][NextChain]_vars

\* Queries over one nested scope, a derived table s or a CTE x, whose body
\* joins `t AS e` with `u AS f` and selects plain, renamed and computed
\* columns: one leaf, two leaves of one name, two leaves of two names, none.
TraceExpressions ==
    {Column("a", <<"e">>),
     Alias(Column("a", <<"f">>), "b"),
     Func(<<Column("a", <<"e">>), Column("a", <<"f">>)>>),
     Func(<<Column("a", <<"e">>), Column("b", <<"f">>)>>),
     Alias(Func(<<Column("a", <<"e">>), Column("a", <<"f">>)>>), "a"),
     Func(<<Star>>)}

TraceBodies ==
    {Select(<<>>, expressions, <<Table(<<"t">>, <<"e">>)>>, <<Table(<<"u">>, <<"f">>)>>) :
        expressions \in Lists(TraceExpressions, 2)}

TraceMainExpressions ==
    {Star, Column("a", SubqueryAlias), Column("b", SubqueryAlias),
     Column("a", CteName)}

TraceQueries ==
    {Select(<<>>, expressions, <<Subquery(body, SubqueryAlias)>>, <<>>) :
        body \in TraceBodies,
        expressions \in Lists(TraceMainExpressions, MaxMainColumns)}
    \cup
    {Select(<<CTE(CteName, body)>>, expressions, <<Table(CteName, NoAlias)>>, <<>>) :
        body \in TraceBodies,
        expressions \in Lists(TraceMainExpressions, MaxMainColumns)}

NextTrace ==
    /\ op = "init"
    /\ \E glot_code \in {Some(q) : q \in TraceQueries} : ResolveColumnLineage(glot_code)

SpecTrace == InitLineage /\ [][NextTrace]_vars

\* The lookups of settings.py, with one setting set in the TOML table, in
\* the environment, in both or in neither.
SettingCalls ==
    {<<"cache_validity_minutes", PyStr(<<"1", "4", "4", "0">>)>>,
     <<"dbt_project_dir", PyNone>>}

BoolSettingCalls ==
    {<<"debug", PyStr(<<"f", "a", "l", "s", "e">>)>>,
     <<"enforce_lineage_validation", PyStr(<<"t", "r", "u", "e">>)>>}

SettingNames == {c[1] : c \in SettingCalls \cup BoolSettingCalls}

TomlValues ==
    {PyBool(TRUE), PyBool(FALSE), PyInt(<<"0">>), PyInt(<<"5">>),
     PyStr(<<"T", "r", "u", "e">>)}

EnvValues ==
    {PyStr(<<>>), PyStr(<<"t", "r", "u", "e">>), PyStr(<<"f", "a", "l", "s", "e">>),
     PyStr(<<"5">>)}

EnvVarNames(name) ==
    {EnvVarName("DBT_TOOLBOX_", name)}
    \cup (IF name \in DbtNames THEN {EnvVarName("", name)} ELSE {})

InitSettings ==
    /\ models = {}
    /\ upstream = <<>>
    /\ InitNoCache
    /\ op = "init"
    /\ args = <<>>
    /\ target_models = {}
    /\ analysis_results = <<>>
    /\ column_refs = <<>>
    /\ exception = None
    /\ calls = <<>>
    /\ setting = None
    /\ \E name \in SettingNames :
        /\ toml \in {<<>>} \cup {<<<<name, value>>>> : value \in TomlValues}
        /\ environ \in {<<>>} \cup {<<<<var, value>>>> :
                                      var \in EnvVarNames(name), value \in EnvValues}

GetSetting(name, default) ==
    /\ op = "init"
    /\ op' = "_get_setting"
    /\ args' = [name |-> name, default |-> default]
    /\ setting' = Some(get_setting(name, default))
    /\ UNCHANGED <<project, environ, toml, target_models, analysis_results,
                   column_refs, exception, calls>>

GetBoolSetting(name, default) ==
    /\ op = "init"
    /\ op' = "_get_bool_setting"
    /\ args' = [name |-> name, default |-> default]
    /\ setting' = Some(get_bool_setting(name, default))
    /\ UNCHANGED <<project, environ, toml, target_models, analysis_results,
                   column_refs, exception, calls>>

NextSettings ==
    \/ /\ op = "init"
       /\ \E c \in SettingCalls : GetSetting(c[1], c[2])
    \/ /\ op = "init"
       /\ \E c \in BoolSettingCalls : GetBoolSetting(c[1], c[2])

SpecSettings == InitSettings /\ [][NextSettings]_vars

(***************************************************************************)
(* The claims.                                                             *)
(***************************************************************************)
Analysed == IF op \in {"analyze_model_execution", "analyze_build_execution"}
            THEN DOMAIN analysis_results
            ELSE {}

Codes(analysis) == {analysis.reasons[i].code : i \in DOMAIN analysis.reasons}

Parsed(s) == op = "parse_dbt_selection" /\ args.selection = Some(s)

\* The separators of a selection expression, as the claims name them.
SepChars == {",", " "}

\* The tokens of a selection expression: its maximal runs of characters
\* that are no separators.
TokensOf(s) ==
    {SubSeq(s, i, j) : <<i, j>> \in
        {p \in (1..Len(s)) \X (1..Len(s)) :
            /\ p[1] <= p[2]
            /\ \A k \in p[1]..p[2] : s[k] \notin SepChars
            /\ (p[1] = 1 \/ s[p[1] - 1] \in SepChars)
            /\ (p[2] = Len(s) \/ s[p[2] + 1] \in SepChars)}}

\* C1: if any unit transitively upstream of an analysed unit U is not fresh,
\* U's analysis has needs_execution = true.
C1_StalenessPropagatesTransitively ==
    \A u \in Analysed :
        (\E x \in UpstreamModels(u) : ~is_fresh(x))
            => analysis_results[u].needs_execution

\* C2: parse_dbt_selection("+m+") contains m and is a superset of
\* parse_dbt_selection("+m") and of parse_dbt_selection("m+").
C2_BidirectionalIsSuperset ==
    \A m \in models :
        Parsed(<<"+">> \o m \o <<"+">>) =>
            /\ m \in target_models
            /\ parse_dbt_selection(Some(<<"+">> \o m)) \subseteq target_models
            /\ parse_dbt_selection(Some(m \o <<"+">>)) \subseteq target_models

\* C3: a unit with no cache entry (last_built absent, or the last build never
\* attempted) gets needs_execution = true and a MODEL_STALE reason, whatever
\* its upstream units and macros.
C3_NoCacheEntryIsStale ==
    \A u \in Analysed :
        (last_built[u] = None \/ last_build_failed[u] = None) =>
            /\ analysis_results[u].needs_execution
            /\ "MODEL_STALE" \in Codes(analysis_results[u])

\* A unit built recently whose outcome was never recorded, over fresh
\* upstream units and no changed macro, is analysed as stale.
C3_Witness ==
    \E u \in Analysed :
        /\ last_build_failed[u] = None
        /\ last_built[u] = Some(MaxTime)
        /\ upstream[u].models # {}
        /\ \A x \in upstream[u].models : x \in models /\ is_fresh(x)
        /\ upstream_macros_changed(u) = {}
        /\ analysis_results[u].needs_execution

\* The direct upstream units of a unit, and whether its macros are unchanged.
DirectUpstreamUnits(u) == upstream[u].models \cap models

\* C4: a fresh unit with a direct upstream unit that is not fresh gets
\* needs_execution = true with an UPSTREAM_MODELS_CHANGED reason and no
\* MODEL_STALE reason; a fresh unit whose direct upstream units are all fresh
\* and whose upstream macros are unchanged gets needs_execution = false and
\* no reasons.
C4_UpstreamStaleOrAllFresh ==
    \A u \in Analysed :
        /\ (is_fresh(u) /\ \E x \in DirectUpstreamUnits(u) : ~is_fresh(x)) =>
              /\ analysis_results[u].needs_execution
              /\ "UPSTREAM_MODELS_CHANGED" \in Codes(analysis_results[u])
              /\ "MODEL_STALE" \notin Codes(analysis_results[u])
        /\ ( /\ is_fresh(u)
             /\ \A x \in DirectUpstreamUnits(u) : is_fresh(x)
             /\ \A mc \in upstream[u].macros : ~macro_changed(mc) ) =>
              /\ ~analysis_results[u].needs_execution
              /\ analysis_results[u].reasons = <<>>

\* One build analysis holding both cases: a fresh unit below a stale one,
\* and a fresh unit below fresh units only.
C4_Witness ==
    \E u, v \in Analysed :
        /\ is_fresh(u) /\ is_fresh(v)
        /\ \E x \in DirectUpstreamUnits(u) : ~is_fresh(x)
        /\ DirectUpstreamUnits(v) # {}
        /\ \A x \in DirectUpstreamUnits(v) : is_fresh(x)
        /\ upstream_macros_changed(v) = {}
        /\ analysis_results[u].needs_execution
        /\ ~analysis_results[v].needs_execution

\* C5: every ModelExecutionAnalysis, from the analyzer or built directly with
\* any needs_execution, has needs_execution = (len(reasons) > 0).
C5_NeedsExecutionIsDerived ==
    \A u \in DOMAIN analysis_results :
        analysis_results[u].needs_execution
            = (Len(analysis_results[u].reasons) > 0)

\* An analysis built with needs_execution = true and no reasons.
C5_Witness ==
    /\ op = "ModelExecutionAnalysis"
    /\ args.needs_execution
    /\ args.reasons = <<>>
    /\ ~analysis_results[args.model].needs_execution

\* C6: for "+name", name a project unit, the result is exactly {name} united
\* with the unit-typed nodes of get_upstream_nodes(name); no macro or source
\* is in it.
C6_UpstreamSelection ==
    \A name \in models :
        Parsed(<<"+">> \o name) =>
            /\ target_models = {name} \cup
                   {n \in get_upstream_nodes(name) : get_node_type(n) = "model"}
            /\ target_models \cap (MacroNames \cup SourceNames) = {}

\* "+name" for a unit with a unit, a macro and a source upstream.
C6_Witness ==
    \E name \in models :
        /\ Parsed(<<"+">> \o name)
        /\ get_upstream_nodes(name) \cap MacroNames # {}
        /\ get_upstream_nodes(name) \cap SourceNames # {}
        /\ Cardinality(target_models) = 3

\* A token stripped of the "+" at its ends, and the four shapes of a token.
RECURSIVE NamePart(_)
NamePart(t) ==
    IF t # <<>> /\ t[1] = "+" THEN NamePart(Tail(t))
    ELSE IF t # <<>> /\ t[Len(t)] = "+" THEN NamePart(SubSeq(t, 1, Len(t) - 1))
    ELSE t

HasPlus(t) == \E i \in DOMAIN t : t[i] = "+"

Recognised(t) ==
    LET n == NamePart(t)
    IN  /\ n # <<>>
        /\ ~HasPlus(n)
        /\ t \in {n, <<"+">> \o n, n \o <<"+">>, <<"+">> \o n \o <<"+">>}

IsToken(t) == t # <<>> /\ \A i \in DOMAIN t : t[i] \notin SepChars

\* C7: a token without "+" contributes exactly {token} when it names a
\* project unit and nothing otherwise; a token with "+" whose name part is no
\* project unit, or whose shape is unrecognised, contributes nothing; the
\* result of every call is a set of project unit names.
C7_UnknownTokensIgnored ==
    op = "parse_dbt_selection" =>
        /\ target_models \subseteq models
        /\ (args.selection # None /\ IsToken(args.selection[1])) =>
              LET t == args.selection[1]
              IN  /\ ~HasPlus(t) =>
                        target_models = (IF t \in models THEN {t} ELSE {})
                  /\ (HasPlus(t) /\ (~Recognised(t) \/ NamePart(t) \notin models))
                        => target_models = {}

\* A token with a "+" inside, between two unit names, selects nothing.
C7_Witness ==
    \E x, y \in models :
        /\ Parsed(x \o <<"+">> \o y)
        /\ target_models = {}

\* C8: for a non-empty selection, the result is the union of the results of
\* parsing each of its tokens alone.
C8_UnionOfTokens ==
    (op = "parse_dbt_selection" /\ args.selection # None
        /\ args.selection # Some(<<>>)) =>
        target_models =
            UNION {parse_dbt_selection(Some(t)) : t \in TokensOf(args.selection[1])}

\* Two tokens, a space between them, each selecting something the other
\* does not.
C8_Witness ==
    /\ op = "parse_dbt_selection"
    /\ args.selection # None
    /\ \E i \in DOMAIN args.selection[1] : args.selection[1][i] = " "
    /\ Cardinality(TokensOf(args.selection[1])) = 2
    /\ \A t \in TokensOf(args.selection[1]) :
          /\ parse_dbt_selection(Some(t)) # {}
          /\ parse_dbt_selection(Some(t)) # target_models

\* C9: with the selection absent, parse_dbt_selection returns all units of
\* the project and analyze_build_execution returns one analysis per unit.
C9_AbsentSelectsAll ==
    (op = "analyze_build_execution" /\ args.selection = None) =>
        /\ target_models = models
        /\ DOMAIN analysis_results = models
        /\ \A u \in models : analysis_results[u].model = u

\* A build analysis of the whole project, no selection given.
C9_Witness ==
    /\ op = "analyze_build_execution"
    /\ args.selection = None
    /\ Cardinality(DOMAIN analysis_results) = 3

\* C10: every column reference resolve_column_lineage returns with no table
\* reference has reference type INTERNAL and resolved FALSE, whether the main
\* pass or the pass over the nested queries produced it.
C10_NoTableIsInternalUnresolved ==
    op = "resolve_column_lineage" =>
        \A i \in 1..Len(column_refs) :
            column_refs[i].table_reference = None =>
                /\ column_refs[i].reference_type = "INTERNAL"
                /\ column_refs[i].resolved = Some(FALSE)

\* A one-column select list over a JOIN yields a reference with no table, and
\* the pass over the CTE body appends a second reference after it.
C10_Witness ==
    /\ op = "resolve_column_lineage"
    /\ exception = None
    /\ args.glot_code # None
    /\ args.glot_code[1].kind = "select"
    /\ Len(args.glot_code[1].with) > 0
    /\ Len(args.glot_code[1].expressions) = 1
    /\ args.glot_code[1].expressions[1].kind = "column"
    /\ Len(column_refs) = 2
    /\ column_refs[1].table_reference = None
    /\ column_refs[1].reference_type = "INTERNAL"
    /\ column_refs[2].reference_type = "EXTERNAL"

(***************************************************************************)
(* Claims about resolve_column_lineage.                                    *)
(***************************************************************************)
\* The call was made with a SELECT tree.
Called ==
    /\ op = "resolve_column_lineage"
    /\ args.glot_code # None
    /\ args.glot_code[1].kind = "select"

Query == args.glot_code[1]

HasEntry(column_name, table_reference, reference_type, resolved) ==
    \E i \in 1..Len(column_refs) :
        column_refs[i] = ColumnReference(column_name, table_reference,
                                         reference_type, resolved)

\* The column names a top-level select item reads without a qualifier: the
\* item itself, or the operands of a function call.
RECURSIVE UnqualifiedLeaves(_)
UnqualifiedLeaves(e) ==
    CASE e.kind = "column" -> IF e.table = NoAlias THEN {e.name} ELSE {}
      [] e.kind = "alias" -> UnqualifiedLeaves(e.this)
      [] e.kind = "func" -> UNION {UnqualifiedLeaves(e.args[i]) : i \in 1..Len(e.args)}
      [] OTHER -> {}

RECURSIVE QualifiedLeaves(_)
QualifiedLeaves(e) ==
    CASE e.kind = "column" -> IF e.table # NoAlias THEN {e.name} ELSE {}
      [] e.kind = "alias" -> QualifiedLeaves(e.this)
      [] e.kind = "func" -> UNION {QualifiedLeaves(e.args[i]) : i \in 1..Len(e.args)}
      [] OTHER -> {}

TopUnqualified == UNION {UnqualifiedLeaves(Query.expressions[i]) : i \in 1..Len(Query.expressions)}

TopQualified == UNION {QualifiedLeaves(Query.expressions[i]) : i \in 1..Len(Query.expressions)}

\* The main scope reads one external table and has no JOIN.
SingleExternalTable ==
    /\ Len(Query.from) = 1
    /\ Query.from[1].kind = "table"
    /\ Query.from[1].name \notin CteAliases(Query)
    /\ Len(Query.joins) = 0

\* C11: when the main scope has a single external table in FROM and no JOIN,
\* whatever CTE bodies and nested subqueries the query has, every column
\* selected at top level without a qualifier is returned with that table,
\* reference type EXTERNAL and resolved None.
C11_SingleTableResolves ==
    (Called /\ SingleExternalTable) =>
        \A n \in TopUnqualified :
            HasEntry(n, Some(Query.from[1].name), "EXTERNAL", None)

\* The main scope reads one CTE of the query and has no JOIN.
SingleCte ==
    /\ Len(Query.from) = 1
    /\ Query.from[1].kind = "table"
    /\ Query.from[1].alias = NoAlias
    /\ Query.from[1].name \in CteAliases(Query)
    /\ Len(Query.joins) = 0

\* The body of the CTE the main scope reads.
CteBody ==
    LET i == CHOOSE i \in 1..Len(Query.with) : Query.with[i].alias = Query.from[1].name
    IN  Query.with[i].this

\* The output column set of a CTE body, as the claims name it.
OutputColumns(body) ==
    {alias_or_name(body.expressions[i]) : i \in NonStar(body.expressions)}

\* The names the main select list reads qualified by the CTE it selects from.
CteQualified ==
    {Query.expressions[i].name : i \in
        {j \in 1..Len(Query.expressions) :
            /\ Query.expressions[j].kind = "column"
            /\ Query.expressions[j].table = Query.from[1].name}}

\* C14: a top-level column that resolves to a CTE of the query whose output
\* columns do not contain its name is returned with the CTE name, reference
\* type CTE and resolved FALSE, and no exception is raised.
C14_MissingCteColumn ==
    (Called /\ SingleCte) =>
        \A n \in CteQualified \ (OutputColumns(CteBody) \cup {"*"}) :
            /\ exception = None
            /\ HasEntry(n, Some(Query.from[1].name), "CTE", Some(FALSE))

\* The output names of a CTE body that are computed from exactly one leaf
\* column of exactly one external table: a column, or a column under an
\* alias, of a body that reads a single table.
TracedOutputs(body) ==
    {alias_or_name(body.expressions[i]) : i \in
        {j \in 1..Len(body.expressions) :
            /\ Len(body.from) = 1
            /\ body.from[1].kind = "table"
            /\ Len(body.joins) = 0
            /\ \/ body.expressions[j].kind = "column"
               \/ /\ body.expressions[j].kind = "alias"
                  /\ body.expressions[j].this.kind = "column"}}

\* C15: a top-level column selected from a CTE whose output column of that
\* name, exposed under the source column's name or under an alias, is computed
\* from one leaf column of one external table T is returned with T, reference
\* type EXTERNAL and resolved None.
C15_CteColumnTracedToTable ==
    (Called /\ SingleCte /\ Len(Query.with) = 1) =>
        \A n \in (CteQualified \cup TopUnqualified) \cap TracedOutputs(CteBody) :
            HasEntry(n, Some(CteBody.from[1].name), "EXTERNAL", None)

\* The names the main scope binds: the alias, or else the name, of its FROM
\* item and of each JOIN item.
ScopeItems == Query.from \o Query.joins

BoundNames ==
    {IF ScopeItems[i].alias # NoAlias THEN ScopeItems[i].alias
     ELSE IF ScopeItems[i].kind = "table" THEN ScopeItems[i].name
     ELSE NoAlias : i \in 1..Len(ScopeItems)}

\* C16: an unqualified top-level column of a scope that binds two or more
\* tables is returned with no table reference, INTERNAL and unresolved (the
\* names some qualified column of the select list also carries are left to
\* the first-occurrence rule).
C16_AmbiguousColumnHasNoTable ==
    (Called /\ exception = None /\ Cardinality(BoundNames) >= 2) =>
        \A n \in TopUnqualified \ TopQualified :
            HasEntry(n, None, "INTERNAL", Some(FALSE))

\* C19: called with no tree, or with a tree that is no SELECT,
\* resolve_column_lineage returns an empty list and raises nothing.
C19_NoSelectGivesEmptyList ==
    (op = "resolve_column_lineage" /\ ~Called) =>
        /\ column_refs = <<>>
        /\ exception = None

\* The call with a tree that is a table, not a SELECT.
C19_Witness ==
    /\ op = "resolve_column_lineage"
    /\ args.glot_code # None
    /\ args.glot_code[1].kind = "table"
    /\ column_refs = <<>>
    /\ exception = None

\* The leaf columns of an expression, left to right, as <<name, qualifier>>.
RECURSIVE LeafSeq(_)
RECURSIVE LeafSeqOfAll(_)
LeafSeq(e) ==
    CASE e.kind = "column" -> <<<<e.name, e.table>>>>
      [] e.kind = "alias" -> LeafSeq(e.this)
      [] e.kind = "func" -> LeafSeqOfAll(e.args)
      [] OTHER -> <<>>

LeafSeqOfAll(es) ==
    IF Len(es) = 0 THEN <<>> ELSE LeafSeq(Head(es)) \o LeafSeqOfAll(Tail(es))

\* The leaf columns of the main select list, in the order of the scan.
TopLeafSeq == LeafSeqOfAll(Query.expressions)

TopNames == {TopLeafSeq[i][1] : i \in 1..Len(TopLeafSeq)} \ {"*"}

QualifiersOf(n) == {TopLeafSeq[i][2] : i \in {j \in 1..Len(TopLeafSeq) : TopLeafSeq[j][1] = n}}

FirstLeaf(n) ==
    TopLeafSeq[CHOOSE i \in 1..Len(TopLeafSeq) :
                   /\ TopLeafSeq[i][1] = n
                   /\ \A j \in 1..(i - 1) : TopLeafSeq[j][1] # n]

\* The external tables the main scope binds under the name q.
BoundTables(q) ==
    {ScopeItems[i].name : i \in
        {j \in 1..Len(ScopeItems) :
            /\ ScopeItems[j].kind = "table"
            /\ ScopeItems[j].name \notin CteAliases(Query)
            /\ q = (IF ScopeItems[j].alias # NoAlias THEN ScopeItems[j].alias
                    ELSE ScopeItems[j].name)}}

\* C12: a top-level column qualified by an alias the main scope binds to the
\* external table T, in FROM or in any JOIN, is returned with table reference
\* T, EXTERNAL and resolved None (names read under more than one qualifier
\* are left to the first-occurrence rule).
C12_QualifiedColumnResolves ==
    Called =>
        \A n \in TopNames :
            \A q \in QualifiersOf(n) :
                (QualifiersOf(n) = {q} /\ q # NoAlias) =>
                    \A T \in BoundTables(q) : HasEntry(n, Some(T), "EXTERNAL", None)

IsWildcard(e) == e.kind = "star" \/ (e.kind = "column" /\ e.name = "*")

\* C13: wildcard select items, bare or qualified, contribute no entry: no
\* entry is named after a wildcard, and a query without nested scopes whose
\* select list holds only wildcards returns an empty list.
C13_WildcardsContributeNothing ==
    Called =>
        /\ \A i \in 1..Len(column_refs) : column_refs[i].column_name # "*"
        /\ (/\ \A i \in 1..Len(Query.expressions) : IsWildcard(Query.expressions[i])
            /\ Len(Query.with) = 0
            /\ \A i \in 1..Len(ScopeItems) : ScopeItems[i].kind = "table")
               => column_refs = <<>>

\* C18: the result holds at most one entry per column name, and the table of
\* the entry is the table of the first leaf of that name in the scan of the
\* main select list, whatever later leaves of the name say.
C18_FirstOccurrenceWins ==
    (Called /\ exception = None) =>
        /\ \A i, j \in 1..Len(column_refs) :
               column_refs[i].column_name = column_refs[j].column_name => i = j
        /\ \A n \in TopNames :
               \A T \in BoundTables(FirstLeaf(n)[2]) :
                   \E i \in 1..Len(column_refs) :
                       /\ column_refs[i].column_name = n
                       /\ column_refs[i].table_reference = Some(T)

C20_EncodingRoundTrip ==
    (op = "resolve_column_lineage" /\ "canonical" \in DOMAIN args) =>
        column_refs = <<ColumnReference("a", Some(args.canonical), "EXTERNAL", None)>>

\* The derived tables of the main scope: the aliased subqueries among its
\* FROM and JOIN items.
DerivedTables ==
    {ScopeItems[i] : i \in
        {j \in 1..Len(ScopeItems) :
            ScopeItems[j].kind = "subquery" /\ ScopeItems[j].alias # NoAlias}}

\* The output names of a body that are computed: a function call under an
\* alias.
ComputedOutputs(body) ==
    {body.expressions[i].alias : i \in
        {j \in 1..Len(body.expressions) :
            /\ body.expressions[j].kind = "alias"
            /\ body.expressions[j].this.kind = "func"}}

\* The names the main select list reads under the qualifier q and under no
\* other.
ReadOnlyUnder(q) == {n \in TopNames : QualifiersOf(n) = {q}}

\* C21: a top-level column qualified by the alias of a derived table of the
\* main scope, in FROM or in a JOIN, is returned with the derived table's
\* single external table, EXTERNAL and resolved None when the output column
\* of that name is one leaf column of that table, and with the alias of the
\* derived table, SUBQUERY and resolved TRUE when the output column is
\* computed.
C21_DerivedTableColumn ==
    (Called /\ exception = None) =>
        \A d \in DerivedTables :
            \A n \in ReadOnlyUnder(d.alias) :
                /\ (n \in TracedOutputs(d.this) \ ComputedOutputs(d.this)) =>
                       HasEntry(n, Some(d.this.from[1].name), "EXTERNAL", None)
                /\ (n \in ComputedOutputs(d.this) \ TracedOutputs(d.this)) =>
                       HasEntry(n, Some(d.alias), "SUBQUERY", Some(TRUE))

\* The bodies of the CTEs and derived tables of the main scope that go by
\* the name q.
NamedBodies(q) ==
    {Query.with[i].this : i \in {j \in 1..Len(Query.with) : Query.with[j].alias = q}}
    \cup {d.this : d \in {x \in DerivedTables : x.alias = q}}

HasStar(body) == \E i \in 1..Len(body.expressions) : body.expressions[i].kind = "star"

\* C22: an entry with resolved TRUE names a CTE or a derived table of the
\* query whose output columns contain the entry's column name (a body that
\* selects * has an output column set the query does not show, and is left
\* out).
C22_ResolvedMeansVerified ==
    Called =>
        \A i \in 1..Len(column_refs) :
            column_refs[i].resolved = Some(TRUE) =>
                /\ column_refs[i].table_reference # None
                /\ NamedBodies(column_refs[i].table_reference[1]) # {}
                /\ \A body \in NamedBodies(column_refs[i].table_reference[1]) :
                       \/ HasStar(body)
                       \/ column_refs[i].column_name \in OutputColumns(body)

\* C23: the alias map of the main scope binds only the names of that scope's
\* own FROM and JOIN items: no table, alias or join of a nested subquery or
\* of a CTE body adds a binding to it.
C23_AliasMapOfOwnScope ==
    Called => DictKeys(build_alias_mapping(Query)) \subseteq BoundNames

\* The names a scope outputs as plain unqualified columns.
PlainColumns(body) ==
    {body.expressions[i].name : i \in
        {j \in 1..Len(body.expressions) :
            /\ body.expressions[j].kind = "column"
            /\ body.expressions[j].table = NoAlias}}

\* The scope reads the one table or CTE of that name, without a JOIN.
ReadsOnly(body, name) ==
    /\ Len(body.from) = 1
    /\ body.from[1].kind = "table"
    /\ body.from[1].name = name
    /\ Len(body.joins) = 0

\* The names the query gives to its CTEs and derived tables.
InternalNames ==
    CteAliases(Query) \cup {d.alias : d \in DerivedTables}

\* C24: when the main scope selects c from the CTE y, y selects c from the
\* CTE x, and x selects c from the external table T, the entry for c is
\* (c, T, EXTERNAL, None); and no entry of any result is EXTERNAL with the
\* name of a CTE or of a derived table of the query as its table reference.
C24_CteChainTracedToTable ==
    (Called /\ exception = None) =>
        /\ \A i \in 1..Len(column_refs) :
               column_refs[i].reference_type = "EXTERNAL" =>
                   column_refs[i].table_reference[1] \notin InternalNames
        /\ \A T \in TableNames :
               (/\ Len(Query.with) = 2
                /\ ReadsOnly(Query, Query.with[2].alias)
                /\ ReadsOnly(Query.with[2].this, Query.with[1].alias)
                /\ ReadsOnly(Query.with[1].this, T)) =>
                   \A c \in (TopNames \cap PlainColumns(Query.with[2].this))
                            \cap PlainColumns(Query.with[1].this) :
                       HasEntry(c, Some(T), "EXTERNAL", None)

\* C29: every column a CTE body selects from its single external table, the
\* body reading no CTE, has an entry in the result: either an earlier entry
\* of that name, or the EXTERNAL entry the pass over the nested scopes
\* appends; an earlier nested scope that selected the name without being
\* able to resolve it does not suppress the entry.
C29_SeenOnlyWhenAppended ==
    (Called /\ exception = None) =>
        \A i \in 1..Len(Query.with) :
            \A T \in TableNames \ CteAliases(Query) :
                ReadsOnly(Query.with[i].this, T) =>
                    \A c \in PlainColumns(Query.with[i].this) :
                        \E k \in 1..Len(column_refs) : column_refs[k].column_name = c

\* The select items of a nested scope that the column mapping files under
\* the name n.
FiledUnder(body, n) ==
    {i \in NonStar(body.expressions) : ThisName(body.expressions[i]) = n}

\* Every item filed under n has no leaf column, or two or more.
NotOneLeaf(body, n) ==
    /\ FiledUnder(body, n) # {}
    /\ \A i \in FiledUnder(body, n) : Len(LeafSeq(body.expressions[i])) # 1

\* C27: in the column mapping of a nested scope, a name whose expression has
\* no leaf column or has two or more (two leaves of one column name from two
\* tables included) is mapped to None, and a top-level column read from the
\* scope under that name is not returned EXTERNAL.
C27_OnlyOneLeafIsTraced ==
    (Called /\ exception = None) =>
        LET mapping == build_subquery_column_mapping(Query, collect_all_cte_names(Query))
        IN  \A q \in InternalNames :
                \A body \in NamedBodies(q) :
                    \A n \in {ThisName(body.expressions[i]) : i \in NonStar(body.expressions)} :
                        NotOneLeaf(body, n) =>
                            /\ DictHas(mapping, q)
                            /\ DictHas(DictGet(mapping, q), n)
                            /\ DictGet(DictGet(mapping, q), n) = None
                            /\ \A i \in 1..Len(column_refs) :
                                   (/\ n \in ReadOnlyUnder(q)
                                    /\ column_refs[i].column_name = n) =>
                                       column_refs[i].reference_type # "EXTERNAL"

(***************************************************************************)
(* Claims about the reasons of the build analysis.                         *)
(***************************************************************************)
\* C25: the reasons of an analysed unit hold MODEL_STALE iff the unit is not
\* fresh, UPSTREAM_MODELS_CHANGED iff one of its direct upstream units of the
\* project is not fresh, and UPSTREAM_MACROS_CHANGED iff one of its upstream
\* macros changed, each whatever the other two say.
C25_EveryCauseHasItsReason ==
    \A u \in Analysed :
        /\ ("MODEL_STALE" \in Codes(analysis_results[u])) <=> ~is_fresh(u)
        /\ ("UPSTREAM_MODELS_CHANGED" \in Codes(analysis_results[u]))
               <=> (\E x \in DirectUpstreamUnits(u) : ~is_fresh(x))
        /\ ("UPSTREAM_MACROS_CHANGED" \in Codes(analysis_results[u]))
               <=> (\E mc \in upstream[u].macros : macro_changed(mc))

\* A stale unit below a stale unit, calling a changed macro: three reasons.
C25_Witness ==
    \E u \in Analysed :
        /\ ~is_fresh(u)
        /\ \E x \in DirectUpstreamUnits(u) : ~is_fresh(x)
        /\ \E mc \in upstream[u].macros : macro_changed(mc)
        /\ Len(analysis_results[u].reasons) = 3
        /\ Codes(analysis_results[u])
               = {"MODEL_STALE", "UPSTREAM_MODELS_CHANGED", "UPSTREAM_MACROS_CHANGED"}

\* The causes of a unit's own staleness.
OwnCauses(u) ==
    {cause \in {"absent", "failed", "expired"} :
        \/ cause = "absent" /\ last_built[u] = None
        \/ cause = "failed" /\ last_build_failed[u] = Some(TRUE)
        \/ cause = "expired" /\ last_built[u] # None
                             /\ last_built[u][1] < cache_expiration}

\* The reasons of a unit that are about the unit itself.
OwnReasons(u) ==
    {i \in DOMAIN analysis_results[u].reasons :
        analysis_results[u].reasons[i].code
            \notin {"UPSTREAM_MODELS_CHANGED", "UPSTREAM_MACROS_CHANGED"}}

\* C26: each cause of a unit's own staleness has a reason of its own: an
\* analysed unit has as many reasons about itself as it has causes, so a
\* unit whose last build failed and whose cache has expired has two.
C26_OneReasonPerOwnCause ==
    \A u \in Analysed : Cardinality(OwnReasons(u)) >= Cardinality(OwnCauses(u))

LookedUp == op \in {"_get_setting", "_get_bool_setting"}

\* What a lookup returns for the value it found: the value, or for a boolean
\* setting whether its text reads "true".
Returned(value) ==
    IF op = "_get_bool_setting"
    THEN PyBool(Lower(value.text) = <<"t", "r", "u", "e">>)
    ELSE value

EnvSets(name) == \E var \in EnvVarNames(name) : DictHas(environ, var)

\* C28: a setting that the TOML table sets and no environment variable sets
\* is returned with the TOML value and the source "TOML file", a false or a
\* zero value included; the default is returned when neither sets it, and
\* only then.
C28_TomlBeforeDefault ==
    LookedUp =>
        /\ (DictHas(toml, args.name) /\ ~EnvSets(args.name)) =>
               /\ setting[1].source = "TOML file"
               /\ setting[1].value = Returned(DictGet(toml, args.name))
        /\ (~DictHas(toml, args.name) /\ ~EnvSets(args.name)) =>
               /\ setting[1].source = "default"
               /\ setting[1].value = Returned(args.default)

====
